---- MODULE Spec2Model ----
(***************************************************************************)
(* pi-timelapse: the HTTP control plane (src/server.cpp), the capture      *)
(* pipeline with its completion callback and the ffmpeg supervisor         *)
(* (src/timelapse/timelapse.cpp), as one state machine.                    *)
(*                                                                         *)
(* Threads: the httplib worker threads that run the route handlers, the    *)
(* main thread (listen, then the post-listen join), the capture thread     *)
(* (camThread), the libcamera thread that calls requestComplete, the       *)
(* assembler thread (createTimelapseThread) and the ffmpeg child.          *)
(* Every atomic load or store of a shared flag is its own step; the names  *)
(* of the positions are the source lines (sc59 = /start-cam at line 59).   *)
(*                                                                         *)
(* server.cpp names the stop flag shouldStop and the pipeline entry        *)
(* timelapseHandler; timelapse.cpp defines shouldRecordStop,               *)
(* shouldCreateStop and recordTimelapseHandler.  The model keeps the three *)
(* flags apart, as the sources do, and runs recordTimelapseHandler where   *)
(* the capture thread calls timelapseHandler.                              *)
(***************************************************************************)
EXTENDS Integers, FiniteSets, Sequences, TLC

\* ----------------------------------------------------------------- bounds

\* Requests a capture session queues at most: the capture loop is not
\* followed beyond its MaxFrames-th iteration.
MaxFrames == 2

\* HTTP requests and SIGINTs the server receives in one run.
MaxRequests == 2

\* httplib worker threads that run handlers concurrently.  The pool hands
\* a request to an idle worker; which one is immaterial, so the model
\* takes the first.
Workers == {1, 2}

\* Query values offered for length and cap-interval on /start-cam.
LengthInputs == {1}
IntervalInputs == {30000, 60001}

\* Values of fps, preset and crf on /create-timelapse: the parameters are
\* absent (lines 135-137).
FpsInputs == {0}
PresetInputs == {0}
CrfInputs == {-1}

\* Query values offered when capture sessions run one after the other.
LengthArgs == {-5, -1, 0, 1, 2, 7, 1439, 35791, 35792, 71583}
IntervalArgs == {-500, -1, 0, 1, 499, 5000, 30000, 60000, 60001, 120001, 43200000}

\* Query values offered when assemblies run one after the other.
FpsArgs == {-1, 0, 1, 24, 60, 2147483647}
PresetArgs == {-1, 0, 1, 2, 3, 4}
CrfArgs == {-2, -1, 0, 23, 51, 52}

\* A query parameter of a request: req.has_param(name) and, when present,
\* req.get_param_value(name) as a sequence of characters.
Absent == [present |-> FALSE, value |-> << >>]
Param(str) == [present |-> TRUE, value |-> str]

\* Query strings offered for length and cap-interval on /start-cam and for
\* fps, preset and crf on /create-timelapse: absent, integers, and strings
\* that are no integers ("abc", "", "60001ms", "-", "x", an integer too
\* large for int).
LengthQueries == {Absent, Param(<<"1">>), Param(<<"a", "b", "c">>), Param(<< >>)}
IntervalQueries == {Absent, Param(<<"3", "0", "0", "0", "0">>),
                    Param(<<"6", "0", "0", "0", "1", "m", "s">>), Param(<<"-">>)}
FpsQueries == {Absent, Param(<<"2", "4">>), Param(<<"x">>)}
PresetQueries == {Absent, Param(<<" ", "3">>)}
CrfQueries == {Absent, Param(<<"-", "1", "8">>),
               Param(<<"9", "9", "9", "9", "9", "9", "9", "9", "9", "9", "9">>)}

\* ------------------------------------------------------ program constants

CAP_INTERVAL == 500
TIMELAPSE_LENGTH == 1440
EXIT_FAILURE == 1
ENOMEM == 12
SIGTERM == 15
SIGKILL == 9

\* ------------------------------------------------------- int arithmetic

\* x * k as a 32-bit two's complement int, for 0 <= k <= 1000 (16-bit limbs,
\* so that no intermediate value leaves the 32-bit range).
MulInt32(x, k) ==
  LET l  == x % 65536
      h  == (x \div 65536) % 65536
      lo == (l * k) % 65536
      hi == (h * k + ((l * k) \div 65536)) % 65536
  IN  (IF hi >= 32768 THEN hi - 65536 ELSE hi) * 65536 + lo

\* The exact product x * k does not fit an int (x >= 0, k > 0).
MulOverflows(x, k) == x > 2147483647 \div k

\* C++ int division: the quotient is truncated towards zero (b > 0).
TruncDiv(a, b) == IF a >= 0 THEN a \div b ELSE -((-a) \div b)

\* The least integer not below a / b (b > 0).
CeilDiv(a, b) == -((-a) \div b)

Max(a, b) == IF a >= b THEN a ELSE b

\* capInterval = (capInterval > 0) ? capInterval : CAP_INTERVAL
ResolveInterval(intervalArg) ==
  IF intervalArg > 0 THEN intervalArg ELSE CAP_INTERVAL

\* ResolveLength with the fallback taken from the wrong constant.
ResolveLengthWrongDefault(lengthArg) ==
  IF lengthArg > 0 THEN lengthArg ELSE CAP_INTERVAL

\* timelapseLength = (timelapseLength > 0) ? timelapseLength : TIMELAPSE_LENGTH
ResolveLength(lengthArg) ==
  IF lengthArg > 0 THEN lengthArg ELSE TIMELAPSE_LENGTH

\* timelapseLength * 60 * 1000, evaluated left to right in int.
LengthMs(len) == MulInt32(MulInt32(len, 60), 1000)

\* The multiplication overflows int (undefined behaviour in C++).
LengthMsOverflows(len) ==
  MulOverflows(len, 60) \/ MulOverflows(MulInt32(len, 60), 1000)

\* TotalFrames with the quotient rounded up instead of truncated.
TotalFramesRoundedUp(len, interval) == CeilDiv(LengthMs(len), interval) 

\* const int totalFrames = (timelapseLength * 60 * 1000) / capInterval
TotalFrames(len, interval) == TruncDiv(LengthMs(len), interval)

\* ------------------------------------------------------------- std::stoi

IsDigit(c) == c \in {"0", "1", "2", "3", "4", "5", "6", "7", "8", "9"}

DigitValue(c) ==
  CASE c = "0" -> 0 [] c = "1" -> 1 [] c = "2" -> 2 [] c = "3" -> 3
    [] c = "4" -> 4 [] c = "5" -> 5 [] c = "6" -> 6 [] c = "7" -> 7
    [] c = "8" -> 8 [] c = "9" -> 9

IsSpace(c) == c \in {" ", "\t", "\n"}

\* The index of the first character of str, from k on, that is no space.
RECURSIVE SkipSpaces(_, _)
SkipSpaces(str, k) ==
  IF k <= Len(str) /\ IsSpace(str[k]) THEN SkipSpaces(str, k + 1) ELSE k

\* The digits of str from index k on, accumulated as a negative number so
\* that INT_MIN is reached without overflow; the result is 1 when the
\* number leaves the range of int.
RECURSIVE Digits(_, _, _)
Digits(str, k, acc) ==
  IF k > Len(str) \/ ~IsDigit(str[k])
    THEN acc
    ELSE LET d == DigitValue(str[k])
         IN  IF acc < ((-2147483647 - 1) + d) \div 10 + (IF ((-2147483647 - 1) + d) % 10 = 0 THEN 0 ELSE 1)
               THEN 1
               ELSE Digits(str, k + 1, acc * 10 - d)

\* std::stoi(str): leading white space is skipped, a sign may follow, then
\* the longest run of digits is converted and what follows it is ignored.
\* No digit: std::invalid_argument; outside int: std::out_of_range.
stoi(str) ==
  LET b    == SkipSpaces(str, 1)
      neg  == b <= Len(str) /\ str[b] = "-"
      sgn  == b <= Len(str) /\ str[b] \in {"-", "+"}
      d    == IF sgn THEN b + 1 ELSE b
  IN  IF d > Len(str) \/ ~IsDigit(str[d])
        THEN [threw |-> "invalid_argument", val |-> 0]
        ELSE LET m == Digits(str, d, 0)
             IN  IF m = 1 \/ (~neg /\ m = -2147483647 - 1)
                   THEN [threw |-> "out_of_range", val |-> 0]
                   ELSE [threw |-> "none", val |-> IF neg THEN m ELSE -m]

\* int x = 0; if (req.has_param(name)) x = std::stoi(req.get_param_value(name))
\* with the given value of an absent parameter (server.cpp lines 71-79 and
\* 135-147).
ParseParam(q, absent) ==
  IF q.present THEN stoi(q.value) ELSE [threw |-> "none", val |-> absent]

\* ------------------------------------------------------------------ state

VARIABLES
  \* src/server.cpp
  isCamRunning,           \* std::atomic<bool>, line 50
  isCreatingTimelapse,    \* std::atomic<bool>, line 51
  shouldStop,             \* extern std::atomic<bool>, line 12
  camThread,              \* unique_ptr<thread>, line 47: "null", "joinable", "joined"
  createTimelapseThread,  \* unique_ptr<thread>, line 48: "null", "joinable", "joined"
  svr,                    \* httplib::Server: "listening" or "stopped"
  mainPc,                 \* main: "listen" (212), "join" (216), "return" (226)
  proc,                   \* the process: "running", "exited", "terminated" (std::terminate)
  hpc,                    \* position of each worker's handler, "idle" when it runs none
  hres,                   \* body of the response of the request each worker handles
  nreq,                   \* requests dispatched so far
  frameDir,               \* the entries of FRAME_PATH
  timelapseDirOk,         \* TIMELAPSE_PATH exists and is a directory
  \* src/timelapse/timelapse.cpp
  shouldRecordStop,       \* std::atomic<bool>, line 36
  shouldCreateStop,       \* std::atomic<bool>, line 37
  requestCompleted,       \* std::atomic<bool>, line 41
  cpc,                    \* capture thread: "none", "c197", ..., "c311", "done"
  length,                 \* captured by the thread's lambda, server.cpp line 84
  capIntervalArg,         \* capInterval captured by the lambda, server.cpp line 84
  timelapseLength,        \* parameter of recordTimelapseHandler
  capInterval,            \* parameter of recordTimelapseHandler
  totalFrames,            \* line 266
  i,                      \* loop counter, line 267
  recErr,                 \* int err of the capture thread, server.cpp line 85
  reqState,               \* requests[0]: "idle" or "queued" (owned by the camera)
  connected,              \* camera->requestCompleted is connected to requestComplete
  configured,             \* acquire() and configure() of lines 206-221 both succeeded
  sequence,               \* the camera's next frame sequence number
  cbpc,                   \* requestComplete on the camera thread: "none", "cb72", ...
  cbStatus,               \* request->status() of the completed request
  cbSeq,                  \* metadata.sequence of the completed request
  apc,                    \* assembler thread: "none", "a336", "a357", "a385", ..., "a156", "done"
  fps,                    \* captured by the thread's lambda, server.cpp line 154
  preset,                 \* captured by the thread's lambda, server.cpp line 154
  crf,                    \* captured by the thread's lambda, server.cpp line 154
  fpsStr,                 \* line 340: the resolved fps
  presetStr,              \* line 341: the name of the resolved preset
  crfStr,                 \* line 342: the resolved crf
  child,                  \* ffmpeg: "none", "running", "ended" (not waited for), "reaped"
  childStatus,            \* the wait status the child ended with
  signals,                \* the signals sent to the child with kill, in order
  createErr,              \* int err of the assembler thread, server.cpp line 155
  \* history of the current capture session
  queued,                 \* calls of camera->queueRequest
  stills,                 \* frame files created by the callback
  stopAccepted,           \* /stop-cam stored the stop flag while the session ran
  stillsAfterStop,        \* frame files created since then
  clears,                 \* the all parameters of the clears accepted since the last start
  failed,                 \* callbacks that left the buffer loop at line 118 or 136
  drained,                \* completed requests whose callback returned at line 78
  lastWritten             \* the sequence number of the last frame file created, or -1

handlerVars == <<hpc, hres, nreq>>
latchVars   == <<isCamRunning, isCreatingTimelapse, shouldStop>>
threadVars  == <<camThread, createTimelapseThread>>
mainVars    == <<svr, mainPc, proc>>
dirVars     == <<frameDir, timelapseDirOk>>
flagVars    == <<shouldRecordStop, shouldCreateStop, requestCompleted>>
recVars     == <<cpc, length, capIntervalArg, timelapseLength, capInterval,
                 totalFrames, i, recErr>>
camVars     == <<reqState, connected, configured, sequence, cbpc, cbStatus,
                 cbSeq>>
asmVars     == <<apc, fps, preset, crf, fpsStr, presetStr, crfStr, child,
                 childStatus, signals, createErr>>
histVars    == <<queued, stills, stopAccepted, stillsAfterStop, clears, failed,
                 drained, lastWritten>>

vars == <<handlerVars, latchVars, threadVars, mainVars, dirVars, flagVars,
          recVars, camVars, asmVars, histVars>>

\* ------------------------------------------------------------ ffmpeg child

\* The status waitpid stores for a child: WIFEXITED with WEXITSTATUS, or
\* WIFSIGNALED with WTERMSIG (lines 396-410).
Exited(code) == [kind |-> "exited", val |-> code]
Signaled(sig) == [kind |-> "signaled", val |-> sig]
NoStatus == [kind |-> "none", val |-> 0]

\* ------------------------------------------------------- frame directory

\* FrameName with every frame given the number 0.
FrameNameConstant(seq) == 0

\* lines 96-97: the number in the name frame_NNNNNN.jpg of a frame is the
\* metadata.sequence of its buffer.
FrameName(seq) == seq

\* frame_NNNNNN.jpg, named by the camera's sequence number (lines 96-98).
FrameFile(seq) == [ext |-> ".jpg", seq |-> seq, regular |-> TRUE]

\* Other entries a frame directory may hold: a regular file that is no
\* .jpg, a subdirectory, and a subdirectory whose name ends in .jpg.
OtherFile == [ext |-> ".txt", seq |-> 0, regular |-> TRUE]
SubDir    == [ext |-> "",     seq |-> 0, regular |-> FALSE]
JpgDir    == [ext |-> ".jpg", seq |-> 0, regular |-> FALSE]

\* The frame directories a run may start with.
InitialDirs == { {}, {FrameFile(0), OtherFile, SubDir, JpgDir} }

\* ------------------------------------------------------------------- Init

Init ==
  /\ isCamRunning = FALSE
  /\ isCreatingTimelapse = FALSE
  /\ shouldStop = FALSE
  /\ camThread = "null"
  /\ createTimelapseThread = "null"
  /\ svr = "listening"
  /\ mainPc = "listen"
  /\ proc = "running"
  /\ hpc = [w \in Workers |-> "idle"]
  /\ hres = [w \in Workers |-> "none"]
  /\ nreq = 0
  /\ frameDir \in InitialDirs
  /\ timelapseDirOk \in BOOLEAN
  /\ shouldRecordStop = FALSE
  /\ shouldCreateStop = FALSE
  /\ requestCompleted = FALSE
  /\ cpc = "none"
  /\ length = 0
  /\ capIntervalArg = 0
  /\ timelapseLength = 0
  /\ capInterval = 0
  /\ totalFrames = 0
  /\ i = 0
  /\ recErr = 0
  /\ reqState = "idle"
  /\ connected = FALSE
  /\ configured = FALSE
  /\ sequence = 0
  /\ cbpc = "none"
  /\ cbStatus = "none"
  /\ cbSeq = 0
  /\ apc = "none"
  /\ fps = 0
  /\ preset = 0
  /\ crf = 0
  /\ fpsStr = 0
  /\ presetStr = "none"
  /\ crfStr = 0
  /\ child = "none"
  /\ childStatus = NoStatus
  /\ signals = << >>
  /\ createErr = 0
  /\ queued = 0
  /\ stills = 0
  /\ stopAccepted = FALSE
  /\ stillsAfterStop = 0
  /\ clears = << >>
  /\ failed = 0
  /\ drained = 0
  /\ lastWritten = -1

\* ------------------------------------------------ handlers (server.cpp)

\* A handler can be dispatched to worker w.
CanDispatch(w) ==
  /\ proc = "running"
  /\ svr = "listening"
  /\ hpc[w] = "idle"
  /\ \A u \in Workers : u < w => hpc[u] # "idle"
  /\ nreq < MaxRequests

\* Worker w is at position pc of its handler.
At(w, pc) == proc = "running" /\ hpc[w] = pc

Goto(w, pc) == hpc' = [hpc EXCEPT ![w] = pc]

\* res.set_content(body) as the handler's last statement.
Respond(w, body) ==
  /\ hpc' = [hpc EXCEPT ![w] = "ret"]
  /\ hres' = [hres EXCEPT ![w] = body]

\* The handler has returned: the response is sent and the worker is free.
HandlerReturns(w) ==
  /\ At(w, "ret")
  /\ hpc' = [hpc EXCEPT ![w] = "idle"]
  /\ hres' = [hres EXCEPT ![w] = "none"]
  /\ UNCHANGED <<nreq, latchVars, threadVars, mainVars, dirVars, flagVars,
                 recVars, camVars, asmVars, histVars>>

\* -- /start-cam, lines 54-93

\* line 56: if (isCamRunning.load())
StartCamRunning(w) ==
  /\ CanDispatch(w)
  /\ nreq' = nreq + 1
  /\ IF isCamRunning
       THEN Respond(w, "Error: camera has already been started.")
       ELSE Goto(w, "sc59") /\ UNCHANGED hres
  /\ UNCHANGED <<latchVars, threadVars, mainVars, dirVars, flagVars,
                 recVars, camVars, asmVars, histVars>>

\* line 59: else if (isCreatingTimelapse.load())
StartCamCreating(w) ==
  /\ At(w, "sc59")
  /\ IF isCreatingTimelapse
       THEN Respond(w, "Error: cannot start camera while timelapse is being created.")
       ELSE Goto(w, "sc67") /\ UNCHANGED hres
  /\ UNCHANGED <<nreq, latchVars, threadVars, mainVars, dirVars, flagVars,
                 recVars, camVars, asmVars, histVars>>

\* lines 67-69: join the previous capture thread; join() returns when the
\* thread's function has returned.
StartCamJoin(w) ==
  /\ At(w, "sc67")
  /\ camThread = "joinable" => cpc = "done"
  /\ camThread' = IF camThread = "joinable" THEN "joined" ELSE camThread
  /\ Goto(w, "sc81")
  /\ UNCHANGED <<hres, nreq, latchVars, createTimelapseThread, mainVars,
                 dirVars, flagVars, recVars, camVars, asmVars, histVars>>

\* line 81: isCamRunning.store(true)
StartCamStoreRunning(w) ==
  /\ At(w, "sc81")
  /\ isCamRunning' = TRUE
  /\ Goto(w, "sc82")
  /\ UNCHANGED <<hres, nreq, isCreatingTimelapse, shouldStop, threadVars,
                 mainVars, dirVars, flagVars, recVars, camVars, asmVars,
                 histVars>>

\* line 82: shouldStop.store(false)
StartCamClearStop(w) ==
  /\ At(w, "sc82")
  /\ shouldStop' = FALSE
  /\ Goto(w, "sc84")
  /\ UNCHANGED <<hres, nreq, isCamRunning, isCreatingTimelapse, threadVars,
                 mainVars, dirVars, flagVars, recVars, camVars, asmVars,
                 histVars>>

\* lines 84-85: the new thread calls timelapseHandler(length, capInterval)
\* with the values its lambda captured.
CamThreadStarts(len, interval) ==
  /\ length' = len
  /\ capIntervalArg' = interval
  /\ timelapseLength' = len
  /\ capInterval' = interval
  /\ cpc' = "c197"
  /\ totalFrames' = 0
  /\ i' = 0
  /\ recErr' = 0
  /\ queued' = 0
  /\ stills' = 0
  /\ stopAccepted' = FALSE
  /\ stillsAfterStop' = 0
  /\ clears' = << >>
  /\ failed' = 0
  /\ drained' = 0
  /\ lastWritten' = -1

\* lines 71-79 and 84-91: the thread is created with the parsed length and
\* cap-interval.  Assigning to camThread destroys the std::thread it held:
\* std::terminate if that thread is still joinable.
StartCamSpawn(w) ==
  /\ At(w, "sc84")
  /\ IF camThread = "joinable"
       THEN /\ proc' = "terminated"
            /\ UNCHANGED <<hpc, hres, camThread, recVars, histVars>>
       ELSE /\ \E len \in LengthInputs, interval \in IntervalInputs :
                 CamThreadStarts(len, interval)
            /\ camThread' = "joinable"
            /\ Respond(w, "Timelapse started")
            /\ UNCHANGED proc
  /\ UNCHANGED <<nreq, latchVars, createTimelapseThread, svr, mainPc, dirVars,
                 flagVars, camVars, asmVars>>

\* -- /stop-cam, lines 96-110

\* StopCamRunning with the stop flag stored before the check of line 98.
StopCamRunningStoresFirst(w) ==
  /\ CanDispatch(w)
  /\ nreq' = nreq + 1
  /\ shouldStop' = TRUE
  /\ IF ~isCamRunning
       THEN Respond(w, "Error: no camera is currently running.")
       ELSE Goto(w, "st105") /\ UNCHANGED hres
  /\ UNCHANGED <<isCamRunning, isCreatingTimelapse, threadVars, mainVars,
                 dirVars, flagVars, recVars, camVars, asmVars, histVars>>

\* line 98: if (!isCamRunning.load())
StopCamRunning(w) ==
  /\ CanDispatch(w)
  /\ nreq' = nreq + 1
  /\ IF ~isCamRunning
       THEN Respond(w, "Error: no camera is currently running.")
       ELSE Goto(w, "st105") /\ UNCHANGED hres
  /\ UNCHANGED <<latchVars, threadVars, mainVars, dirVars, flagVars,
                 recVars, camVars, asmVars, histVars>>

\* line 105: shouldStop.store(true)
StopCamStore(w) ==
  /\ At(w, "st105")
  /\ shouldStop' = TRUE
  /\ stopAccepted' = (stopAccepted \/ cpc \notin {"none", "done"})
  /\ Respond(w, "Timelapse has been stopped")
  /\ UNCHANGED <<nreq, isCamRunning, isCreatingTimelapse, threadVars, mainVars,
                 dirVars, flagVars, recVars, camVars, asmVars, queued, stills,
                 stillsAfterStop, clears, failed, drained, lastWritten>>

\* -- /create-timelapse, lines 113-164

\* line 115: if (isCamRunning.load())
CreateRunning(w) ==
  /\ CanDispatch(w)
  /\ nreq' = nreq + 1
  /\ IF isCamRunning
       THEN Respond(w, "Error: cannot create timelapse, camera is currently running.")
       ELSE Goto(w, "ct118") /\ UNCHANGED hres
  /\ UNCHANGED <<latchVars, threadVars, mainVars, dirVars, flagVars,
                 recVars, camVars, asmVars, histVars>>

\* line 118: else if (isCreatingTimelapse.load())
CreateCreating(w) ==
  /\ At(w, "ct118")
  /\ IF isCreatingTimelapse
       THEN Respond(w, "Error: cannot create timelapse, timelapse is already being created.")
       ELSE Goto(w, "ct124") /\ UNCHANGED hres
  /\ UNCHANGED <<nreq, latchVars, threadVars, mainVars, dirVars, flagVars,
                 recVars, camVars, asmVars, histVars>>

\* The body the two directory checks of lines 124-133 leave in res: each
\* sets a body and neither returns; the second fires when TIMELAPSE_PATH
\* does exist and is a directory.
DirCheckBody(dir, dirOk) ==
  IF dirOk
    THEN "Error: cannot create timelapse, the timelapse path does not point to an existing directory."
    ELSE IF dir = {}
           THEN "Error: cannot create timelapse, there are no frames in frame directory."
           ELSE "none"

\* Where the handler goes after the directory checks: line 135 and on to
\* the store of line 152, whatever the checks found.
AfterDirChecks(dir, dirOk) == "ct152"

\* lines 124-133
CreateDirChecks(w) ==
  /\ At(w, "ct124")
  /\ hres' = [hres EXCEPT ![w] = DirCheckBody(frameDir, timelapseDirOk)]
  /\ Goto(w, AfterDirChecks(frameDir, timelapseDirOk))
  /\ UNCHANGED <<nreq, latchVars, threadVars, mainVars, dirVars, flagVars,
                 recVars, camVars, asmVars, histVars>>

\* lines 150-152: the body is replaced, then isCreatingTimelapse.store(true)
CreateStoreCreating(w) ==
  /\ At(w, "ct152")
  /\ isCreatingTimelapse' = TRUE
  /\ hres' = [hres EXCEPT ![w] = "Creating timelapse... this may take awhile"]
  /\ Goto(w, "ct154")
  /\ UNCHANGED <<nreq, isCamRunning, shouldStop, threadVars, mainVars, dirVars,
                 flagVars, recVars, camVars, asmVars, histVars>>

\* lines 154-155: the new thread calls createTimelapseHandler(fps, preset,
\* crf) with the values its lambda captured.
AsmThreadStarts(f, p, c) ==
  /\ fps' = f
  /\ preset' = p
  /\ crf' = c
  /\ apc' = "a336"
  /\ fpsStr' = 0
  /\ presetStr' = "none"
  /\ crfStr' = 0
  /\ child' = "none"
  /\ childStatus' = NoStatus
  /\ signals' = << >>
  /\ createErr' = 0

\* lines 135-147 and 154-162: the assembler thread is created.  Assigning to
\* createTimelapseThread destroys the std::thread it held: std::terminate
\* if that thread is still joinable (nothing ever joins it).
CreateSpawn(w) ==
  /\ At(w, "ct154")
  /\ IF createTimelapseThread = "joinable"
       THEN /\ proc' = "terminated"
            /\ UNCHANGED <<hpc, hres, createTimelapseThread, asmVars>>
       ELSE /\ createTimelapseThread' = "joinable"
            /\ \E f \in FpsInputs, p \in PresetInputs, c \in CrfInputs :
                 AsmThreadStarts(f, p, c)
            /\ Respond(w, "Timelapse has been created")
            /\ UNCHANGED proc
  /\ UNCHANGED <<nreq, latchVars, camThread, svr, mainPc, dirVars, flagVars,
                 recVars, camVars, histVars>>

\* -- /clear-frames, lines 167-203

\* line 168: if (isCamRunning.load())
ClearRunning(w) ==
  /\ CanDispatch(w)
  /\ nreq' = nreq + 1
  /\ IF isCamRunning
       THEN Respond(w, "Error: cannot clear frames while camera is running.")
       ELSE Goto(w, "cf176") /\ UNCHANGED hres
  /\ UNCHANGED <<latchVars, threadVars, mainVars, dirVars, flagVars,
                 recVars, camVars, asmVars, histVars>>

\* The values of the query parameter all: absent, "true", anything else.
AllParams == {"absent", "true", "yes"}

\* Removed with the extension not looked at.
RemovedAnyExtension(dir, all) ==
  CASE all = "true"   -> {f \in dir : f.regular}
    [] all = "absent" -> {f \in dir : f.regular}
    [] OTHER          -> {}

\* Removed with the loop left after the first file it removes.
RemovedFirstOnly(dir, all) ==
  LET files == CASE all = "true"   -> {f \in dir : f.regular}
                 [] all = "absent" -> {f \in dir : f.regular /\ f.ext = ".jpg"}
                 [] OTHER          -> {}
  IN  IF files = {} THEN {} ELSE {CHOOSE f \in files : TRUE}

\* The entries the deletion loops of lines 182-186 and 194-198 remove.
Removed(dir, all) ==
  CASE all = "true"   -> {f \in dir : f.regular}
    [] all = "absent" -> {f \in dir : f.regular /\ f.ext = ".jpg"}
    [] OTHER          -> {}

ClearBody(all) ==
  CASE all = "true"   -> "All files have been successfully cleared"
    [] all = "absent" -> "Frames have been successfully cleared"
    [] OTHER          -> "Error: invalid param value for 'all'."

\* The clears accepted so far, with this one: a value of all other than
\* "true" is refused at line 177.
ClearsWith(all) == IF all \in {"absent", "true"} THEN Append(clears, all) ELSE clears

\* lines 176-201
ClearDelete(w) ==
  /\ At(w, "cf176")
  /\ \E all \in AllParams :
       /\ frameDir' = frameDir \ Removed(frameDir, all)
       /\ clears' = ClearsWith(all)
       /\ Respond(w, ClearBody(all))
  /\ UNCHANGED <<nreq, latchVars, threadVars, mainVars, timelapseDirOk,
                 flagVars, recVars, camVars, asmVars, queued, stills,
                 stopAccepted, stillsAfterStop, failed, drained, lastWritten>>

\* -- /shutdown and SIGINT

\* shutdownServer, lines 21-27: the flags it stores.
ShutdownFlags ==
  /\ shouldStop' = TRUE
  /\ UNCHANGED flagVars

\* shutdownServer, lines 21-27
shutdownServer ==
  /\ ShutdownFlags
  /\ svr' = "stopped"

\* lines 205-210
Shutdown(w) ==
  /\ CanDispatch(w)
  /\ nreq' = nreq + 1
  /\ shutdownServer
  /\ Respond(w, "Shutting down...")
  /\ UNCHANGED <<isCamRunning, isCreatingTimelapse, threadVars, mainPc, proc,
                 dirVars, recVars, camVars, asmVars, histVars>>

\* lines 31-37: SIGINT while the server listens
interruptHandler ==
  /\ proc = "running"
  /\ svr = "listening"
  /\ nreq < MaxRequests
  /\ nreq' = nreq + 1
  /\ shutdownServer
  /\ UNCHANGED <<hpc, hres, isCamRunning, isCreatingTimelapse, threadVars,
                 mainPc, proc, dirVars, recVars, camVars, asmVars, histVars>>

\* -- main after listen, lines 212-227

\* line 212: listen returns once the server is stopped and the worker
\* threads have finished the handlers they were running.
ListenReturns ==
  /\ proc = "running"
  /\ mainPc = "listen"
  /\ svr = "stopped"
  /\ \A w \in Workers : hpc[w] = "idle"
  /\ mainPc' = "join"
  /\ UNCHANGED <<handlerVars, latchVars, threadVars, svr, proc, dirVars,
                 flagVars, recVars, camVars, asmVars, histVars>>

\* lines 216-222: join the capture thread if there is one
MainJoin ==
  /\ proc = "running"
  /\ mainPc = "join"
  /\ camThread = "joinable" => cpc = "done"
  /\ camThread' = IF camThread = "joinable" THEN "joined" ELSE camThread
  /\ mainPc' = "return"
  /\ UNCHANGED <<handlerVars, latchVars, createTimelapseThread, svr, proc,
                 dirVars, flagVars, recVars, camVars, asmVars, histVars>>

\* line 226: return 0 destroys createTimelapseThread and camThread;
\* destroying a joinable std::thread calls std::terminate.
MainReturn ==
  /\ proc = "running"
  /\ mainPc = "return"
  /\ proc' = IF createTimelapseThread = "joinable" \/ camThread = "joinable"
               THEN "terminated" ELSE "exited"
  /\ UNCHANGED <<handlerVars, latchVars, threadVars, svr, mainPc, dirVars,
                 flagVars, recVars, camVars, asmVars, histVars>>

\* ------------------- capture thread (recordTimelapseHandler, lines 187-312)

AtRec(pc) == proc = "running" /\ cpc = pc

\* The positions at which recordTimelapseHandler returns: 200, 230, 245
\* and 253 with an error code, 311 with 0.
ReturnPcs == {"c200", "c230", "c245", "c253", "c311"}

\* The positions after the parameters were resolved (lines 263-264).
ResolvedPcs == {"c267", "c273", "c281", "c289", "c295", "c300", "c311"}

\* What lines 189-221 may find: no camera; a camera whose acquire() is
\* refused; a camera whose configuration is rejected; a configured camera.
OpenOutcomes == {"noCamera", "acquireRefused", "configureFailed", "configured"}

\* lines 189-221: enumerate the cameras; none: return EXIT_FAILURE.  The
\* results of acquire, validate and configure are not looked at.
RecOpen ==
  /\ AtRec("c197")
  /\ \E outcome \in OpenOutcomes :
       IF outcome = "noCamera"
         THEN cpc' = "c200" /\ recErr' = EXIT_FAILURE /\ configured' = FALSE
         ELSE /\ cpc' = "c226"
              /\ configured' = (outcome = "configured")
              /\ UNCHANGED recErr
  /\ UNCHANGED <<handlerVars, latchVars, threadVars, mainVars, dirVars,
                 flagVars, length, capIntervalArg, timelapseLength,
                 capInterval, totalFrames, i, reqState, connected, sequence,
                 cbpc, cbStatus, cbSeq, asmVars, histVars>>

\* What allocator->allocate may return for a camera in the given state:
\* libcamera exports buffers only for a camera that is configured, so the
\* call fails when acquire or configure failed before it.
AllocateResults(isConfigured) == IF isConfigured THEN {0, -ENOMEM} ELSE {-13}

\* RecAllocate without the check of line 227.
RecAllocateUnchecked ==
  /\ AtRec("c226")
  /\ \E ret \in AllocateResults(configured) : cpc' = "c242"
  /\ UNCHANGED <<handlerVars, latchVars, threadVars, mainVars, dirVars,
                 flagVars, length, capIntervalArg, timelapseLength,
                 capInterval, totalFrames, i, recErr, camVars, asmVars,
                 histVars>>

\* lines 223-235: allocate the frame buffers; ret < 0: return -ENOMEM
RecAllocate ==
  /\ AtRec("c226")
  /\ \E ret \in AllocateResults(configured) :
       IF ret < 0
         THEN cpc' = "c230" /\ recErr' = -ENOMEM
         ELSE cpc' = "c242" /\ UNCHANGED recErr
  /\ UNCHANGED <<handlerVars, latchVars, threadVars, mainVars, dirVars,
                 flagVars, length, capIntervalArg, timelapseLength, capInterval, totalFrames, i,
                 camVars, asmVars, histVars>>

\* What createRequest and addBuffer of lines 241-257 may do.
RequestOutcomes == {"ok", "noRequest", "addBufferFailed"}

\* lines 241-257: one request per buffer; createRequest fails: return
\* -ENOMEM; addBuffer fails: return its negative code.
RecCreateRequests ==
  /\ AtRec("c242")
  /\ \E outcome \in RequestOutcomes :
       CASE outcome = "ok"        -> cpc' = "c259" /\ UNCHANGED recErr
         [] outcome = "noRequest" -> cpc' = "c245" /\ recErr' = -ENOMEM
         [] OTHER                 -> cpc' = "c253" /\ \E ret \in {-22, -17} : recErr' = ret
  /\ UNCHANGED <<handlerVars, latchVars, threadVars, mainVars, dirVars,
                 flagVars, length, capIntervalArg, timelapseLength, capInterval, totalFrames, i,
                 camVars, asmVars, histVars>>

\* lines 259-266: connect the slot, start the camera, resolve the
\* parameters, compute totalFrames.  When the int multiplication overflows
\* the behaviour is undefined: the build either wraps or traps.
RecStart ==
  /\ AtRec("c259")
  /\ connected' = TRUE
  /\ sequence' = 0
  /\ capInterval' = ResolveInterval(capInterval)
  /\ timelapseLength' = ResolveLength(timelapseLength)
  /\ \E trap \in (IF LengthMsOverflows(timelapseLength') THEN BOOLEAN ELSE {FALSE}) :
       IF trap
         THEN proc' = "terminated" /\ UNCHANGED <<cpc, totalFrames, i>>
         ELSE /\ totalFrames' = TotalFrames(timelapseLength', capInterval')
              /\ i' = 0
              /\ cpc' = "c267"
              /\ UNCHANGED proc
  /\ UNCHANGED <<handlerVars, latchVars, threadVars, svr, mainPc, dirVars,
                 flagVars, length, capIntervalArg, recErr, reqState, configured, cbpc,
                 cbStatus, cbSeq, asmVars, histVars>>

\* line 267: i < totalFrames && !shouldRecordStop.load()
LoopContinues == i < totalFrames /\ ~shouldRecordStop

\* line 267, and line 271: if (i > 0)
RecLoopCond ==
  /\ AtRec("c267")
  /\ cpc' = IF LoopContinues THEN (IF i > 0 THEN "c273" ELSE "c281") ELSE "c289"
  /\ UNCHANGED <<handlerVars, latchVars, threadVars, mainVars, dirVars,
                 flagVars, length, capIntervalArg, timelapseLength, capInterval, totalFrames, i,
                 recErr, camVars, asmVars, histVars>>

\* RecWait without the wait of line 273.
RecWaitNoWait ==
  /\ AtRec("c273")
  /\ IF shouldRecordStop
       THEN cpc' = "c289" /\ UNCHANGED requestCompleted
       ELSE cpc' = "c281" /\ requestCompleted' = FALSE
  /\ UNCHANGED <<handlerVars, latchVars, threadVars, mainVars, dirVars,
                 shouldRecordStop, shouldCreateStop, length, capIntervalArg,
                 timelapseLength, capInterval, totalFrames, i, recErr,
                 camVars, asmVars, histVars>>

\* lines 272-279, under reqCompleteMutex: wait for requestCompleted, leave
\* the loop if shouldRecordStop, else clear the flag and reuse the request
RecWait ==
  /\ AtRec("c273")
  /\ requestCompleted
  /\ IF shouldRecordStop
       THEN cpc' = "c289" /\ UNCHANGED requestCompleted
       ELSE cpc' = "c281" /\ requestCompleted' = FALSE
  /\ UNCHANGED <<handlerVars, latchVars, threadVars, mainVars, dirVars,
                 shouldRecordStop, shouldCreateStop, length, capIntervalArg,
                 timelapseLength, capInterval, totalFrames, i, recErr, camVars, asmVars,
                 histVars>>

\* lines 281-287: queue the request, sleep out the interval, i++
RecQueue ==
  /\ AtRec("c281")
  /\ i < MaxFrames
  /\ reqState' = "queued"
  /\ queued' = queued + 1
  /\ i' = i + 1
  /\ cpc' = "c267"
  /\ UNCHANGED <<handlerVars, latchVars, threadVars, mainVars, dirVars,
                 flagVars, length, capIntervalArg, timelapseLength, capInterval, totalFrames, recErr,
                 connected, configured, sequence, cbpc, cbStatus, cbSeq, asmVars, stills,
                 stopAccepted, stillsAfterStop, clears, failed, drained,
                 lastWritten>>

\* lines 289-293: shouldRecordStop.store(true)
RecStop ==
  /\ AtRec("c289")
  /\ shouldRecordStop' = TRUE
  /\ cpc' = "c295"
  /\ UNCHANGED <<handlerVars, latchVars, threadVars, mainVars, dirVars,
                 shouldCreateStop, requestCompleted, length, capIntervalArg,
                 timelapseLength, capInterval, totalFrames, i, recErr, camVars, asmVars,
                 histVars>>

\* lines 295-298: sleep 300 ms, disconnect the slot, destroy the requests
RecDrain ==
  /\ AtRec("c295")
  /\ connected' = FALSE
  /\ cpc' = "c300"
  /\ UNCHANGED <<handlerVars, latchVars, threadVars, mainVars, dirVars,
                 flagVars, length, capIntervalArg, timelapseLength, capInterval, totalFrames, i,
                 recErr, reqState, configured, sequence, cbpc, cbStatus, cbSeq, asmVars,
                 histVars>>

\* lines 300-311: camera->stop() is a blocking call into the camera thread,
\* so it returns after a running requestComplete has returned; what is
\* still queued is cancelled.  Then free, camera->release(), return 0.
RecTeardown ==
  /\ AtRec("c300")
  /\ cbpc = "none"
  /\ reqState' = "idle"
  /\ configured' = FALSE
  /\ recErr' = 0
  /\ cpc' = "c311"
  /\ UNCHANGED <<handlerVars, latchVars, threadVars, mainVars, dirVars,
                 flagVars, length, capIntervalArg, timelapseLength, capInterval, totalFrames, i,
                 connected, sequence, cbpc, cbStatus, cbSeq, asmVars,
                 histVars>>

\* CamThreadFinish without the store of line 86.
CamThreadFinishNoStore ==
  /\ proc = "running"
  /\ cpc \in ReturnPcs
  /\ cpc' = "done"
  /\ length' = 0
  /\ capIntervalArg' = 0
  /\ timelapseLength' = 0
  /\ capInterval' = 0
  /\ totalFrames' = 0
  /\ i' = 0
  /\ recErr' = 0
  /\ UNCHANGED <<handlerVars, latchVars, threadVars, mainVars, dirVars,
                 flagVars, camVars, asmVars, histVars>>

\* server.cpp lines 85-89: timelapseHandler has returned;
\* isCamRunning.store(false) and the thread ends.
CamThreadFinish ==
  /\ proc = "running"
  /\ cpc \in ReturnPcs
  /\ isCamRunning' = FALSE
  /\ cpc' = "done"
  /\ length' = 0
  /\ capIntervalArg' = 0
  /\ timelapseLength' = 0
  /\ capInterval' = 0
  /\ totalFrames' = 0
  /\ i' = 0
  /\ recErr' = 0
  /\ UNCHANGED <<handlerVars, isCreatingTimelapse, shouldStop, threadVars,
                 mainVars, dirVars, flagVars, camVars, asmVars, histVars>>

\* ---------------------- camera thread (requestComplete, lines 70-184)

AtCb(pc) == proc = "running" /\ cbpc = pc

\* The status a request completes with.
RequestStatuses == {"RequestComplete", "RequestCancelled"}

\* The camera completes the queued request and calls the connected slot.
CameraCompletes ==
  /\ proc = "running"
  /\ reqState = "queued"
  /\ connected
  /\ cbpc = "none"
  /\ \E status \in RequestStatuses :
       /\ cbStatus' = status
       /\ cbSeq' = sequence
       /\ sequence' = IF status = "RequestComplete" THEN sequence + 1 ELSE sequence
  /\ reqState' = "idle"
  /\ cbpc' = "cb72"
  /\ UNCHANGED <<handlerVars, latchVars, threadVars, mainVars, dirVars,
                 flagVars, recVars, connected, configured, asmVars, histVars>>

\* CbEntry with a cancelled request sent on to the signal of line 181.
CbEntryCancelledSignals ==
  /\ AtCb("cb72")
  /\ IF shouldRecordStop
       THEN /\ requestCompleted' = TRUE
            /\ cbpc' = "none"
            /\ drained' = drained + (IF cbStatus = "RequestComplete" THEN 1 ELSE 0)
       ELSE /\ UNCHANGED <<requestCompleted, drained>>
            /\ cbpc' = IF cbStatus = "RequestCancelled" THEN "cb180" ELSE "cb109"
  /\ UNCHANGED <<handlerVars, latchVars, threadVars, mainVars, dirVars,
                 shouldRecordStop, shouldCreateStop, recVars, reqState,
                 connected, configured, sequence, cbStatus, cbSeq, asmVars,
                 queued, stills, stopAccepted, stillsAfterStop, clears, failed,
                 lastWritten>>

\* lines 72-83: stop requested: signal and return; cancelled: return
CbEntry ==
  /\ AtCb("cb72")
  /\ IF shouldRecordStop
       THEN /\ requestCompleted' = TRUE
            /\ cbpc' = "none"
            /\ drained' = drained + (IF cbStatus = "RequestComplete" THEN 1 ELSE 0)
       ELSE /\ UNCHANGED <<requestCompleted, drained>>
            /\ cbpc' = IF cbStatus = "RequestCancelled" THEN "none" ELSE "cb109"
  /\ UNCHANGED <<handlerVars, latchVars, threadVars, mainVars, dirVars,
                 shouldRecordStop, shouldCreateStop, recVars, reqState,
                 connected, configured, sequence, cbStatus, cbSeq, asmVars,
                 queued, stills, stopAccepted, stillsAfterStop, clears, failed,
                 lastWritten>>

\* CbMmap with a return in place of the break of line 118.
CbMmapFailureReturns ==
  /\ AtCb("cb109")
  /\ \E ok \in BOOLEAN :
       IF ok
         THEN cbpc' = "cb132" /\ UNCHANGED failed
         ELSE cbpc' = "none" /\ failed' = failed + 1
  /\ UNCHANGED <<handlerVars, latchVars, threadVars, mainVars, dirVars,
                 flagVars, recVars, reqState, connected, configured, sequence, cbStatus,
                 cbSeq, asmVars, queued, stills, stopAccepted, stillsAfterStop,
                 clears, drained, lastWritten>>

\* lines 109-119: mmap the buffer; MAP_FAILED: break
CbMmap ==
  /\ AtCb("cb109")
  /\ \E ok \in BOOLEAN :
       IF ok
         THEN cbpc' = "cb132" /\ UNCHANGED failed
         ELSE cbpc' = "cb180" /\ failed' = failed + 1
  /\ UNCHANGED <<handlerVars, latchVars, threadVars, mainVars, dirVars,
                 flagVars, recVars, reqState, connected, configured, sequence, cbStatus,
                 cbSeq, asmVars, queued, stills, stopAccepted, stillsAfterStop,
                 clears, drained, lastWritten>>

\* lines 132-137: fopen(filename, "wb") creates or truncates the frame
\* file; failure: munmap and break
CbOpen ==
  /\ AtCb("cb132")
  /\ \E ok \in BOOLEAN :
       IF ok
         THEN /\ frameDir' = frameDir \cup {FrameFile(FrameName(cbSeq))}
              /\ lastWritten' = FrameName(cbSeq)
              /\ stills' = stills + 1
              /\ stillsAfterStop' = stillsAfterStop + (IF stopAccepted THEN 1 ELSE 0)
              /\ cbpc' = "cb172"
              /\ UNCHANGED failed
         ELSE /\ cbpc' = "cb180"
              /\ failed' = failed + 1
              /\ UNCHANGED <<frameDir, stills, stillsAfterStop, lastWritten>>
  /\ UNCHANGED <<handlerVars, latchVars, threadVars, mainVars, timelapseDirOk,
                 flagVars, recVars, reqState, connected, configured, sequence, cbStatus,
                 cbSeq, asmVars, queued, stopAccepted, clears, drained>>

\* lines 139-176: encode the frame, fclose, munmap
CbEncode ==
  /\ AtCb("cb172")
  /\ cbpc' = "cb180"
  /\ UNCHANGED <<handlerVars, latchVars, threadVars, mainVars, dirVars,
                 flagVars, recVars, reqState, connected, configured, sequence, cbStatus,
                 cbSeq, asmVars, histVars>>

\* lines 179-183: requestCompleted.store(true) under the mutex, notify
CbSignal ==
  /\ AtCb("cb180")
  /\ requestCompleted' = TRUE
  /\ cbpc' = "none"
  /\ UNCHANGED <<handlerVars, latchVars, threadVars, mainVars, dirVars,
                 shouldRecordStop, shouldCreateStop, recVars, reqState,
                 connected, configured, sequence, cbStatus, cbSeq, asmVars, histVars>>

\* ------------------- assembler thread (createTimelapseHandler, 333-437)

AtAsm(pc) == proc = "running" /\ apc = pc

\* line 336: fps = (fps > 0) ? fps : 60
ResolveFps(f) == IF f > 0 THEN f ELSE 60

\* ResolvePreset with the lower limit included.
ResolvePresetFromZero(p) == IF p >= 0 /\ p <= 3 THEN p ELSE 2

\* line 337: preset = (preset > 0 && preset <= 3) ? preset : 2
ResolvePreset(p) == IF p > 0 /\ p <= 3 THEN p ELSE 2

\* line 338: crf = (crf > -1 && crf <= 51) ? crf : 23
ResolveCrf(c) == IF c > -1 /\ c <= 51 THEN c ELSE 23

\* lines 322-330: the name of a preset; no case matches: the function
\* throws std::invalid_argument.
getPreset(p) ==
  CASE p = 1 -> "medium"
    [] p = 2 -> "faster"
    [] p = 3 -> "veryfast"
    [] OTHER -> "invalid_argument"

\* lines 336-342: resolve the parameters and build the argument strings.
\* An exception of getPreset leaves the thread function: std::terminate.
AsmResolve ==
  /\ AtAsm("a336")
  /\ fpsStr' = ResolveFps(fps)
  /\ presetStr' = getPreset(ResolvePreset(preset))
  /\ crfStr' = ResolveCrf(crf)
  /\ IF presetStr' = "invalid_argument"
       THEN apc' = "a329" /\ proc' = "terminated"
       ELSE apc' = "a357" /\ UNCHANGED proc
  /\ UNCHANGED <<handlerVars, latchVars, threadVars, svr, mainPc, dirVars,
                 flagVars, recVars, camVars, fps, preset, crf, child,
                 childStatus, signals, createErr, histVars>>

\* lines 357-362: fork; failure: return -1
AsmFork ==
  /\ AtAsm("a357")
  /\ \E ok \in BOOLEAN :
       IF ok
         THEN child' = "running" /\ apc' = "a385" /\ UNCHANGED createErr
         ELSE createErr' = -1 /\ apc' = "a156" /\ UNCHANGED child
  /\ UNCHANGED <<handlerVars, latchVars, threadVars, mainVars, dirVars,
                 flagVars, recVars, camVars, histVars, fps, preset, crf, fpsStr,
                 presetStr, crfStr, childStatus, signals>>

\* How the ffmpeg child may end by itself: exit code 0, a non-zero exit
\* code (1 is also the _exit(1) of line 379), or death by a signal.
ChildEnds == {Exited(0), Exited(1), Exited(255), Signaled(11)}

\* How the child may end after the signals in sent were sent to it:
\* SIGKILL kills it; SIGTERM kills it unless ffmpeg handles the signal, in
\* which case it goes on or exits with a code of its own.
ChildEndsAfter(sent) ==
  IF \E k \in 1..Len(sent) : sent[k] = SIGKILL
    THEN {Signaled(SIGKILL)}
    ELSE IF \E k \in 1..Len(sent) : sent[k] = SIGTERM
           THEN ChildEnds \cup {Signaled(SIGTERM)}
           ELSE ChildEnds

ChildExits ==
  /\ proc = "running"
  /\ child = "running"
  /\ \E end \in ChildEndsAfter(signals) : childStatus' = end
  /\ child' = "ended"
  /\ UNCHANGED <<handlerVars, latchVars, threadVars, mainVars, dirVars,
                 flagVars, recVars, camVars, histVars, apc, fps, preset, crf, fpsStr,
                 presetStr, crfStr, signals, createErr>>

\* ChildResult with every failure reported as -1.
ChildResultMinusOne(status) ==
  IF status.kind = "exited" /\ status.val = 0 THEN 0 ELSE -1

\* The return value of lines 393-411 for a child that has ended.
ChildResult(status) == IF status.kind = "exited" THEN status.val ELSE -1

\* lines 385-435: waitpid(WNOHANG); the child has ended: return its result;
\* it still runs: line 414 if shouldCreateStop, else sleep 400 ms and poll
\* again.
AsmPoll ==
  /\ AtAsm("a385")
  /\ IF child = "ended"
       THEN /\ createErr' = ChildResult(childStatus)
            /\ child' = "reaped"
            /\ apc' = "a156"
       ELSE /\ apc' = IF shouldCreateStop THEN "a418" ELSE "a385"
            /\ UNCHANGED <<child, createErr>>
  /\ UNCHANGED <<handlerVars, latchVars, threadVars, mainVars, dirVars,
                 flagVars, recVars, camVars, histVars, fps, preset, crf, fpsStr,
                 presetStr, crfStr, childStatus, signals>>

\* line 418: kill(pid, SIGTERM)
AsmTerminate ==
  /\ AtAsm("a418")
  /\ signals' = Append(signals, SIGTERM)
  /\ apc' = "a424"
  /\ UNCHANGED <<handlerVars, latchVars, threadVars, mainVars, dirVars,
                 flagVars, recVars, camVars, histVars, fps, preset, crf, fpsStr,
                 presetStr, crfStr, child, childStatus, createErr>>

\* AsmGrace with the result of waitpid not looked at.
AsmGraceAlwaysKills ==
  /\ AtAsm("a424")
  /\ apc' = "a427"
  /\ UNCHANGED <<handlerVars, latchVars, threadVars, mainVars, dirVars,
                 flagVars, recVars, camVars, histVars, fps, preset, crf, fpsStr,
                 presetStr, crfStr, child, childStatus, signals, createErr>>

\* lines 421-425: sleep 2000 ms, then waitpid(WNOHANG): the child has
\* ended and is reaped, or it still runs.
AsmGrace ==
  /\ AtAsm("a424")
  /\ IF child = "ended"
       THEN child' = "reaped" /\ apc' = "a431"
       ELSE apc' = "a427" /\ UNCHANGED child
  /\ UNCHANGED <<handlerVars, latchVars, threadVars, mainVars, dirVars,
                 flagVars, recVars, camVars, histVars, fps, preset, crf, fpsStr,
                 presetStr, crfStr, childStatus, signals, createErr>>

\* line 427: kill(pid, SIGKILL)
AsmKill ==
  /\ AtAsm("a427")
  /\ signals' = Append(signals, SIGKILL)
  /\ apc' = "a428"
  /\ UNCHANGED <<handlerVars, latchVars, threadVars, mainVars, dirVars,
                 flagVars, recVars, camVars, histVars, fps, preset, crf, fpsStr,
                 presetStr, crfStr, child, childStatus, createErr>>

\* line 428: waitpid(pid, &childStatus, 0) returns when the child has ended
AsmReap ==
  /\ AtAsm("a428")
  /\ child = "ended"
  /\ child' = "reaped"
  /\ apc' = "a431"
  /\ UNCHANGED <<handlerVars, latchVars, threadVars, mainVars, dirVars,
                 flagVars, recVars, camVars, histVars, fps, preset, crf, fpsStr,
                 presetStr, crfStr, childStatus, signals, createErr>>

\* lines 431-432: shouldCreateStop.store(false); return -1
AsmClearCancel ==
  /\ AtAsm("a431")
  /\ shouldCreateStop' = FALSE
  /\ createErr' = -1
  /\ apc' = "a156"
  /\ UNCHANGED <<handlerVars, latchVars, threadVars, mainVars, dirVars,
                 shouldRecordStop, requestCompleted, recVars, camVars, fps,
                 preset, crf, fpsStr, presetStr, crfStr, child, childStatus,
                 signals, histVars>>

\* server.cpp lines 155-159: createTimelapseHandler has returned;
\* isCreatingTimelapse.store(false) and the thread ends.
AsmThreadFinish ==
  /\ AtAsm("a156")
  /\ isCreatingTimelapse' = FALSE
  /\ apc' = "done"
  /\ fps' = 0
  /\ preset' = 0
  /\ crf' = 0
  /\ fpsStr' = 0
  /\ presetStr' = "none"
  /\ crfStr' = 0
  /\ childStatus' = NoStatus
  /\ signals' = << >>
  /\ createErr' = 0
  /\ UNCHANGED <<handlerVars, isCamRunning, shouldStop, threadVars, mainVars,
                 dirVars, flagVars, recVars, camVars, child, histVars>>

\* ------------------------------------------------------------------- Next

Handler(w) ==
  \/ StartCamRunning(w)
  \/ StartCamCreating(w)
  \/ StartCamJoin(w)
  \/ StartCamStoreRunning(w)
  \/ StartCamClearStop(w)
  \/ StartCamSpawn(w)
  \/ StopCamRunning(w)
  \/ StopCamStore(w)
  \/ CreateRunning(w)
  \/ CreateCreating(w)
  \/ CreateDirChecks(w)
  \/ CreateStoreCreating(w)
  \/ CreateSpawn(w)
  \/ ClearRunning(w)
  \/ ClearDelete(w)
  \/ Shutdown(w)
  \/ HandlerReturns(w)

Next ==
  \/ \E w \in Workers : Handler(w)
  \/ interruptHandler
  \/ ListenReturns
  \/ MainJoin
  \/ MainReturn
  \/ RecOpen
  \/ RecAllocate
  \/ RecCreateRequests
  \/ RecStart
  \/ RecLoopCond
  \/ RecWait
  \/ RecQueue
  \/ RecStop
  \/ RecDrain
  \/ RecTeardown
  \/ CamThreadFinish
  \/ CameraCompletes
  \/ CbEntry
  \/ CbMmap
  \/ CbOpen
  \/ CbEncode
  \/ CbSignal
  \/ AsmResolve
  \/ AsmFork
  \/ ChildExits
  \/ AsmPoll
  \/ AsmThreadFinish

Spec == Init /\ [][Next]_vars

\* ------------------------------------- capture sessions one after another

\* /start-cam with no other request in flight, lines 56-91 as one step: the
\* checks pass, the previous capture thread is joined, the flags are
\* stored and the new thread starts.
StartCam(len, interval) ==
  /\ proc = "running"
  /\ svr = "listening"
  /\ \A w \in Workers : hpc[w] = "idle"
  /\ nreq < MaxRequests
  /\ ~isCamRunning
  /\ ~isCreatingTimelapse
  /\ camThread = "joinable" => cpc = "done"
  /\ nreq' = nreq + 1
  /\ isCamRunning' = TRUE
  /\ shouldStop' = FALSE
  /\ camThread' = "joinable"
  /\ CamThreadStarts(len, interval)
  /\ UNCHANGED <<hpc, hres, isCreatingTimelapse, createTimelapseThread,
                 mainVars, dirVars, flagVars, camVars, asmVars>>

NextCapture ==
  \/ \E len \in LengthArgs, interval \in IntervalArgs : StartCam(len, interval)
  \/ RecOpen
  \/ RecAllocate
  \/ RecCreateRequests
  \/ RecStart
  \/ RecLoopCond
  \/ RecWait
  \/ RecQueue
  \/ RecStop
  \/ RecDrain
  \/ RecTeardown
  \/ CamThreadFinish
  \/ CameraCompletes
  \/ CbEntry
  \/ CbMmap
  \/ CbOpen
  \/ CbEncode
  \/ CbSignal

\* The server under /start-cam requests only, sent one at a time, with the
\* wider range of query values.
SpecCapture == Init /\ [][NextCapture]_vars

\* ------------------------------------------- assemblies with cancellation

\* /create-timelapse with no other request in flight, lines 115-162 as one
\* step: the checks pass, isCreatingTimelapse is stored and the assembler
\* thread is created with the parsed fps, preset and crf.
CreateTimelapse(f, p, c) ==
  /\ proc = "running"
  /\ svr = "listening"
  /\ \A w \in Workers : hpc[w] = "idle"
  /\ nreq < MaxRequests
  /\ ~isCamRunning
  /\ ~isCreatingTimelapse
  /\ nreq' = nreq + 1
  /\ isCreatingTimelapse' = TRUE
  /\ IF createTimelapseThread = "joinable"
       THEN /\ proc' = "terminated"
            /\ UNCHANGED <<createTimelapseThread, asmVars>>
       ELSE /\ createTimelapseThread' = "joinable"
            /\ AsmThreadStarts(f, p, c)
            /\ UNCHANGED proc
  /\ UNCHANGED <<hpc, hres, isCamRunning, shouldStop, camThread, svr, mainPc,
                 dirVars, flagVars, recVars, camVars, histVars>>

\* The holder of the extern flag of timelapse.h line 10 asks the running
\* assembly to stop: shouldCreateStop.store(true).
RequestCancel ==
  /\ proc = "running"
  /\ ~shouldCreateStop
  /\ shouldCreateStop' = TRUE
  /\ UNCHANGED <<handlerVars, latchVars, threadVars, mainVars, dirVars,
                 shouldRecordStop, requestCompleted, recVars, camVars,
                 asmVars, histVars>>

NextAssemble ==
  \/ \E f \in FpsArgs, p \in PresetArgs, c \in CrfArgs : CreateTimelapse(f, p, c)
  \/ RequestCancel
  \/ AsmResolve
  \/ AsmFork
  \/ ChildExits
  \/ AsmPoll
  \/ AsmTerminate
  \/ AsmGrace
  \/ AsmKill
  \/ AsmReap
  \/ AsmClearCancel
  \/ AsmThreadFinish

\* The server under /create-timelapse requests only, sent one at a time,
\* with the wider range of query values and with cancellation requested
\* through shouldCreateStop.
SpecAssemble == Init /\ [][NextAssemble]_vars

\* ------------------------------------------ clears and captures in turn

\* /clear-frames with no other request in flight, lines 167-203 as one
\* step: refused while the camera runs, else the files are removed.
ClearFrames(all) ==
  /\ proc = "running"
  /\ svr = "listening"
  /\ \A w \in Workers : hpc[w] = "idle"
  /\ nreq < MaxRequests
  /\ nreq' = nreq + 1
  /\ IF isCamRunning
       THEN UNCHANGED <<frameDir, clears>>
       ELSE /\ frameDir' = frameDir \ Removed(frameDir, all)
            /\ clears' = ClearsWith(all)
  /\ UNCHANGED <<hpc, hres, latchVars, threadVars, mainVars, timelapseDirOk,
                 flagVars, recVars, camVars, asmVars, queued, stills,
                 stopAccepted, stillsAfterStop, failed, drained, lastWritten>>

NextClear ==
  \/ \E all \in AllParams : ClearFrames(all)
  \/ \E len \in LengthInputs, interval \in IntervalInputs : StartCam(len, interval)
  \/ RecOpen
  \/ RecAllocate
  \/ RecCreateRequests
  \/ RecStart
  \/ RecLoopCond
  \/ RecWait
  \/ RecQueue
  \/ RecStop
  \/ RecDrain
  \/ RecTeardown
  \/ CamThreadFinish
  \/ CameraCompletes
  \/ CbEntry
  \/ CbMmap
  \/ CbOpen
  \/ CbEncode
  \/ CbSignal

\* The server under /clear-frames and /start-cam requests sent one at a
\* time.
SpecClear == Init /\ [][NextClear]_vars

\* ------------------------------------------------ requests with a query

\* An exception left the parsing of a query parameter.
Threw(r) == r.threw # "none"

\* /start-cam with no other request in flight and with its query, lines
\* 56-91 as one step.  An exception of std::stoi leaves the handler at line
\* 73 or 78, after the join of line 68 and before line 81; httplib catches
\* it and answers with status 500.
StartCamQuery(lq, iq) ==
  LET l == ParseParam(lq, 0)
      c == ParseParam(iq, 0)
  IN  IF Threw(l) \/ Threw(c)
        THEN /\ proc = "running"
             /\ svr = "listening"
             /\ \A w \in Workers : hpc[w] = "idle"
             /\ nreq < MaxRequests
             /\ ~isCamRunning
             /\ ~isCreatingTimelapse
             /\ camThread = "joinable" => cpc = "done"
             /\ nreq' = nreq + 1
             /\ camThread' = IF camThread = "joinable" THEN "joined" ELSE camThread
             /\ UNCHANGED <<hpc, hres, latchVars, createTimelapseThread,
                            mainVars, dirVars, flagVars, recVars, camVars,
                            asmVars, histVars>>
        ELSE StartCam(l.val, c.val)

\* /create-timelapse with no other request in flight and with its query,
\* lines 115-162 as one step.  An exception of std::stoi leaves the handler
\* at line 140, 143 or 146, before line 152.
CreateTimelapseQuery(fq, pq, cq) ==
  LET f == ParseParam(fq, 0)
      p == ParseParam(pq, 0)
      c == ParseParam(cq, -1)
  IN  IF Threw(f) \/ Threw(p) \/ Threw(c)
        THEN /\ proc = "running"
             /\ svr = "listening"
             /\ \A w \in Workers : hpc[w] = "idle"
             /\ nreq < MaxRequests
             /\ ~isCamRunning
             /\ ~isCreatingTimelapse
             /\ nreq' = nreq + 1
             /\ UNCHANGED <<hpc, hres, latchVars, threadVars, mainVars,
                            dirVars, flagVars, recVars, camVars, asmVars,
                            histVars>>
        ELSE CreateTimelapse(f.val, p.val, c.val)

NextQuery ==
  \/ \E lq \in LengthQueries, iq \in IntervalQueries : StartCamQuery(lq, iq)
  \/ \E fq \in FpsQueries, pq \in PresetQueries, cq \in CrfQueries :
       CreateTimelapseQuery(fq, pq, cq)
  \/ RecOpen
  \/ RecAllocate
  \/ RecCreateRequests
  \/ RecStart
  \/ RecLoopCond
  \/ RecWait
  \/ RecQueue
  \/ RecStop
  \/ RecDrain
  \/ RecTeardown
  \/ CamThreadFinish
  \/ CameraCompletes
  \/ CbEntry
  \/ CbMmap
  \/ CbOpen
  \/ CbEncode
  \/ CbSignal
  \/ AsmResolve
  \/ AsmFork
  \/ ChildExits
  \/ AsmPoll
  \/ AsmThreadFinish

\* The server under /start-cam and /create-timelapse requests sent one at a
\* time, each with its query strings.
SpecQuery == Init /\ [][NextQuery]_vars

\* ----------------------------------------------------------------- claims

\* The job state of the control plane: the running latches, the stop and
\* cancel flags, the background threads and the frame files.
jobState == <<isCamRunning, isCreatingTimelapse, shouldStop, shouldRecordStop,
              shouldCreateStop, camThread, createTimelapseThread, cpc, apc,
              child, frameDir>>

\* C1: isCamRunning and isCreatingTimelapse are never both true, also when
\* a /start-cam and a /create-timelapse handler run on two workers.
C1_NeverBothRunning == ~(isCamRunning /\ isCreatingTimelapse)

\* The bodies of the responses that reject a request for a state conflict.
ConflictBodies ==
  { "Error: camera has already been started.",
    "Error: cannot start camera while timelapse is being created.",
    "Error: no camera is currently running.",
    "Error: cannot create timelapse, camera is currently running.",
    "Error: cannot create timelapse, timelapse is already being created.",
    "Error: cannot clear frames while camera is running." }

\* Worker w's handler takes a step on the path to a state-conflict
\* rejection: it sets the rejecting body, or it moves on from its first
\* check to its second.
ConflictCheckStep(w) ==
  \/ hres'[w] \in ConflictBodies /\ hres[w] \notin ConflictBodies
  \/ hpc[w] = "idle" /\ hpc'[w] \in {"sc59", "ct118"}

\* C2: a request rejected for a state conflict leaves the latches, the stop
\* and cancel flags, the background threads and the frame directory as
\* they were.
C2_RejectionChangesNothing ==
  [][(\E w \in Workers : ConflictCheckStep(w)) => UNCHANGED jobState]_vars

\* C2 witness: /create-timelapse is being rejected because the capture runs.
C2_Witness ==
  \E w \in Workers :
    /\ hres[w] = "Error: cannot create timelapse, camera is currently running."
    /\ isCamRunning
    /\ ~isCreatingTimelapse
    /\ cpc \notin {"none", "done"}

\* C3: /create-timelapse that passed the two latch checks is rejected when
\* the frame directory is empty or TIMELAPSE_PATH is no existing directory
\* (the handler ends without storing isCreatingTimelapse), and goes on to
\* start the assembler otherwise.
C3_AssemblePreconditions ==
  [][\A w \in Workers :
       (hpc[w] = "ct124" /\ hpc'[w] # "ct124") =>
          IF frameDir = {} \/ ~timelapseDirOk
            THEN hpc'[w] = "ret" /\ UNCHANGED jobState
            ELSE hpc'[w] = "ct152"]_vars

\* C4: shutdownServer sets the capture stop flag and the assembler's cancel
\* flag, the one the supervision loop reads at line 414.
C4_ShutdownSetsBothFlags ==
  [][(svr = "listening" /\ svr' = "stopped") =>
        (shouldStop' /\ shouldCreateStop')]_vars

\* C5: when main returns after listen, no background thread is left: the
\* capture thread and the assembler thread have finished and were joined.
C5_NoTaskLeftAtExit ==
  mainPc = "return" =>
    /\ camThread # "joinable"
    /\ createTimelapseThread # "joinable"
    /\ cpc \in {"none", "done"}
    /\ apc \in {"none", "done"}

\* C6: after /stop-cam stored the stop flag in a running session, at most
\* one more frame file is written in that session.
C6_AtMostOneFrameAfterStop == stillsAfterStop <= 1

\* C7: the flag an accepted /stop-cam stores is the flag the capture loop
\* and the callback read (shouldRecordStop, lines 72, 267 and 275).
C7_StopSetsTheFlagRead ==
  [][\A w \in Workers :
       (hpc[w] = "st105" /\ hpc'[w] = "ret") => shouldRecordStop']_vars

\* The bound of C8 as stated: ceil(P / T), P = D * 60 * 1000 as an int.
QueuedBound32 == CeilDiv(LengthMs(timelapseLength), capInterval)

\* C8: the requests queued in a session never exceed ceil(P / T), P the
\* product D * 60 * 1000 in 32-bit signed arithmetic.
C8_QueuedWithinCeil32 == cpc \in ResolvedPcs => queued <= QueuedBound32

\* C9: length 0 resolves to 1440 minutes and interval 0 to 500 ms; a
\* positive length or interval is used as given.
C9_ResolvedParameters ==
  cpc \in ResolvedPcs =>
    /\ length = 0 => timelapseLength = 1440
    /\ length > 0 => timelapseLength = length
    /\ capIntervalArg = 0 => capInterval = 500
    /\ capIntervalArg > 0 => capInterval = capIntervalArg

\* C9 witness: a session called with length 0 and interval 0 has resolved
\* its parameters.
C9_Witness ==
  /\ cpc = "c267"
  /\ length = 0
  /\ capIntervalArg = 0
  /\ timelapseLength = 1440
  /\ capInterval = 500

\* The resolved interval is larger than the resolved duration in ms.
IntervalExceedsDuration ==
  /\ cpc \in ResolvedPcs
  /\ ~LengthMsOverflows(timelapseLength)
  /\ capInterval > LengthMs(timelapseLength)

\* C10: a session whose interval exceeds its duration queues no request,
\* writes no still, goes from the loop condition through drain and
\* teardown, and returns 0.
C10_NoFrameWhenIntervalTooLong ==
  IntervalExceedsDuration =>
    /\ queued = 0
    /\ stills = 0
    /\ cpc \in {"c267", "c289", "c295", "c300", "c311"}
    /\ cpc = "c311" => (recErr = 0 /\ ~connected /\ reqState = "idle")

\* C10 witness: such a session has returned.
C10_Witness ==
  /\ IntervalExceedsDuration
  /\ cpc = "c311"
  /\ recErr = 0
  /\ queued = 0

\* The positions from request creation to teardown: the device was
\* enumerated, acquired and configured and its buffers were allocated.
PastAllocationPcs == {"c242", "c259", "c267", "c273", "c281", "c289", "c295",
                      "c300"}

ReturnedNotCancelled == apc = "a156" /\ signals = << >>

\* C12: not cancelled, createTimelapseHandler returns 0 exactly when the
\* child exited with code 0, the exit code of a child that exited with
\* another code, and a non-zero value when the child was killed by a
\* signal or could not be forked.
C12_SupervisionResult ==
  ReturnedNotCancelled =>
    /\ createErr = 0 <=> childStatus = Exited(0)
    /\ childStatus.kind = "exited" => createErr = childStatus.val
    /\ childStatus.kind = "signaled" => createErr # 0
    /\ child = "none" => createErr # 0
    /\ child \in {"none", "reaped"}

\* C12 witness: the child exited with code 255 and the handler returned 255.
C12_Witness ==
  /\ ReturnedNotCancelled
  /\ child = "reaped"
  /\ childStatus = Exited(255)
  /\ createErr = 255

\* C13: on cancellation SIGTERM is sent first; SIGKILL is sent only when
\* the child still ran at the waitpid after the grace sleep; when the
\* handler returns from the cancel branch the child has been reaped,
\* shouldCreateStop is false and the return value is not 0.
C13_CancelEscalation ==
  [][/\ apc' = "a418" /\ apc # "a418" => shouldCreateStop /\ child = "running"
     /\ signals' # signals /\ signals' # << >> =>
          /\ signals'[1] = SIGTERM
          /\ Len(signals') = 2 => (signals'[2] = SIGKILL /\ apc = "a427")
          /\ Len(signals') <= 2
     /\ apc' = "a427" /\ apc # "a427" =>
          (apc = "a424" /\ child = "running" /\ signals = <<SIGTERM>>)
     /\ apc = "a431" /\ apc' = "a156" =>
          /\ child' = "reaped"
          /\ ~shouldCreateStop'
          /\ createErr' # 0]_vars

\* C13 witness: a cancelled assembly that needed SIGKILL has returned.
C13_Witness ==
  /\ apc = "a156"
  /\ signals = <<SIGTERM, SIGKILL>>
  /\ child = "reaped"
  /\ childStatus = Signaled(SIGKILL)
  /\ createErr = -1
  /\ ~shouldCreateStop

\* The positions after the parameters were resolved (lines 336-342).
AsmResolvedPcs == {"a357", "a385", "a418", "a424", "a427", "a428", "a431",
                   "a156"}

\* C16: fps <= 0 becomes 60 and a positive fps is kept; a preset outside
\* 1..3 becomes 2 and 1, 2, 3 name medium, faster, veryfast; a crf outside
\* 0..51 becomes 23 and a crf in 0..51 is kept; getPreset never throws.
C16_AssemblerParameters ==
  /\ apc # "a329"
  /\ apc \in AsmResolvedPcs =>
        /\ fps <= 0 => fpsStr = 60
        /\ fps > 0 => fpsStr = fps
        /\ preset \notin 1..3 => presetStr = "faster"
        /\ preset = 1 => presetStr = "medium"
        /\ preset = 2 => presetStr = "faster"
        /\ preset = 3 => presetStr = "veryfast"
        /\ crf \notin 0..51 => crfStr = 23
        /\ crf \in 0..51 => crfStr = crf

\* C16 witness: an assembly called with fps 0, preset 4 and crf 52 has
\* resolved them to 60, faster and 23.
C16_Witness ==
  /\ apc = "a357"
  /\ fps = 0
  /\ preset = 4
  /\ crf = 52
  /\ fpsStr = 60
  /\ presetStr = "faster"
  /\ crfStr = 23

\* C14: an accepted /clear-frames without all removes exactly the regular
\* files with extension .jpg; with all=true it removes exactly the regular
\* files; with another value of all it reports the invalid parameter and
\* removes nothing.
C14_ClearRemoves ==
  [][\A w \in Workers :
       (hpc[w] = "cf176" /\ hpc'[w] = "ret") =>
          CASE hres'[w] = "Frames have been successfully cleared" ->
                 frameDir' = {f \in frameDir : ~(f.regular /\ f.ext = ".jpg")}
            [] hres'[w] = "All files have been successfully cleared" ->
                 frameDir' = {f \in frameDir : ~f.regular}
            [] OTHER ->
                 /\ hres'[w] = "Error: invalid param value for 'all'."
                 /\ frameDir' = frameDir]_vars

\* C14 witness: a clear without all has removed the frame and left the
\* three other entries.
C14_Witness ==
  \E w \in Workers :
    /\ hpc[w] = "ret"
    /\ hres[w] = "Frames have been successfully cleared"
    /\ frameDir = {OtherFile, SubDir, JpgDir}

\* A step in which a clear is accepted right after another accepted clear,
\* with no accepted start in between.
SecondClearStep == clears # << >> /\ clears' # << >> /\ clears' # clears

\* C15: the second of two clears in a row leaves the frame directory
\* empty and changes nothing.
C15_ClearTwiceEmpties ==
  [][SecondClearStep => (frameDir' = {} /\ frameDir' = frameDir)]_vars

\* C15 amended: the second of two clears in a row with the same all
\* parameter changes nothing and leaves no regular .jpg file in the frame
\* directory, and no regular file at all when all=true.
C15_ClearTwiceSameParameter ==
  [][(SecondClearStep /\ clears'[Len(clears')] = clears[Len(clears)]) =>
       /\ frameDir' = frameDir
       /\ \A f \in frameDir' :
            f.regular => (f.ext # ".jpg" /\ clears'[Len(clears')] # "true")]_vars

\* C15 witness: two clears without all were accepted in a row on a
\* directory that held a frame and other entries.
C15_Witness ==
  /\ clears = <<"absent", "absent">>
  /\ frameDir = {OtherFile, SubDir, JpgDir}

\* str is an integer in decimal notation that fits an int.
IsInteger(str) ==
  LET d == IF Len(str) >= 1 /\ str[1] \in {"-", "+"} THEN 2 ELSE 1
  IN  /\ d <= Len(str)
      /\ \A k \in d..Len(str) : IsDigit(str[k])
      /\ stoi(str).threw = "none"

\* The value a query parameter stands for: its integer, or the default
\* when it is missing or no integer.
Coerced(q, default) ==
  IF q.present /\ IsInteger(q.value) THEN stoi(q.value).val ELSE default

\* C17: /start-cam and /create-timelapse treat a query parameter that is
\* missing or no integer as its default and go on as if the default had
\* been passed.
C17_ParametersCoerced ==
  [][/\ \A lq \in LengthQueries, iq \in IntervalQueries :
          StartCamQuery(lq, iq) => StartCam(Coerced(lq, 0), Coerced(iq, 0))
     /\ \A fq \in FpsQueries, pq \in PresetQueries, cq \in CrfQueries :
          CreateTimelapseQuery(fq, pq, cq) =>
            CreateTimelapse(Coerced(fq, 0), Coerced(pq, 0), Coerced(cq, -1))]_vars

\* C18: the capture loop queues a request only when the camera owns none
\* and no callback is running: the callback of the request queued before
\* it, in the same session, has signalled requestCompleted and returned.
C18_OneRequestInFlight ==
  [][queued' = queued + 1 =>
       /\ reqState = "idle"
       /\ cbpc = "none"
       /\ i > 0 => ~requestCompleted']_vars

\* C18 witness: the second request of a session was queued after the first
\* frame was written, and the camera owns it.
C18_Witness ==
  /\ cpc = "c267"
  /\ queued = 2
  /\ stills = 1
  /\ reqState = "queued"
  /\ cbpc = "none"

\* C19: once /stop-cam has stored the stop flag in a running session, the
\* capture loop queues no further request in that session.
C19_NoRequestAfterStop ==
  [][(stopAccepted /\ cpc \notin {"none", "done"}) => queued' <= queued]_vars

\* C20: every accepted /start-cam clears the stop flag: the capture thread
\* it starts finds the flag its loop reads, and the flag /stop-cam sets,
\* false.
C20_StartClearsStop ==
  [][(cpc' = "c197" /\ cpc # "c197") => (~shouldRecordStop' /\ ~shouldStop')]_vars

\* C21: a callback that finds shouldRecordStop set at line 72 creates no
\* frame file, signals requestCompleted and returns; a callback whose
\* request was cancelled, with the flag not set, creates no frame file and
\* returns without signalling.
C21_CallbackEarlyReturns ==
  [][(cbpc = "cb72" /\ cbpc' # "cb72") =>
        /\ shouldRecordStop =>
              /\ cbpc' = "none"
              /\ requestCompleted'
              /\ UNCHANGED <<frameDir, stills, lastWritten>>
        /\ (~shouldRecordStop /\ cbStatus = "RequestCancelled") =>
              /\ cbpc' = "none"
              /\ UNCHANGED <<requestCompleted, frameDir, stills, lastWritten>>]_vars

\* C21 witness: the callback of a cancelled request has returned while the
\* flag was not set: no frame was written, requestCompleted was not
\* signalled and the loop waits at line 273.
C21_Witness ==
  /\ cbpc = "none"
  /\ cbStatus = "RequestCancelled"
  /\ ~shouldRecordStop
  /\ ~requestCompleted
  /\ cpc = "c273"
  /\ queued = 1
  /\ reqState = "idle"
  /\ stills = 0

\* The callback leaves the buffer loop because mmap or fopen failed.
FrameFails ==
  /\ cbpc \in {"cb109", "cb132"}
  /\ cbpc' \notin {cbpc, "cb132", "cb172"}

\* C22: a failed mmap or fopen in the callback drops that frame only: the
\* callback goes on to signal requestCompleted, the capture loop is left
\* as it was and can queue the next request, and when the session returns
\* its stills are the completed requests minus the failed ones.
C22_FailedFrameOnlyDropped ==
  [][/\ FrameFails =>
          /\ cbpc' = "cb180"
          /\ UNCHANGED <<frameDir, stills, recVars, shouldRecordStop, reqState>>
     /\ (cbpc = "cb180" /\ cbpc' # "cb180") => (requestCompleted' /\ cbpc' = "none")
     /\ (cpc' = "c311" /\ cpc # "c311") => stills' = sequence' - failed']_vars

\* C22 amended: as C22, with the stills of a returned session being the
\* completed requests minus the failed ones and minus the one, if any,
\* whose callback found shouldRecordStop set at line 72.
C22_FailedOrDrainedFrameDropped ==
  [][/\ FrameFails =>
          /\ cbpc' = "cb180"
          /\ failed' = failed + 1
          /\ UNCHANGED <<frameDir, stills, recVars, shouldRecordStop, reqState>>
     /\ (cbpc = "cb180" /\ cbpc' # "cb180") => (requestCompleted' /\ cbpc' = "none")
     /\ (cpc' = "c311" /\ cpc # "c311") =>
          /\ stills' = sequence' - failed' - drained'
          /\ drained' <= 1]_vars

\* C22 witness: the first frame of a session failed, the loop queued the
\* second request, its frame was written and the session returned.
C22_Witness ==
  /\ cpc = "c311"
  /\ queued = 2
  /\ sequence = 2
  /\ failed = 1
  /\ drained = 0
  /\ stills = 1
  /\ lastWritten = 1

\* C23: within a session every frame file the callback creates carries the
\* sequence number of the request just completed, which is larger than
\* that of every file created before it; and while a callback runs the
\* camera owns no request, so that no second callback can write beside it.
C23_FramesInSequenceOrder ==
  [][/\ stills' = stills + 1 =>
          /\ lastWritten' = cbSeq
          /\ lastWritten' > lastWritten
          /\ lastWritten' = sequence - 1
          /\ frameDir' = frameDir \cup {FrameFile(cbSeq)}
     /\ cbpc' # "none" => reqState' = "idle"]_vars

\* C23 witness: a session has written frame 0 and then frame 1.
C23_Witness ==
  /\ cpc = "c300"
  /\ stills = 2
  /\ lastWritten = 1
  /\ {FrameFile(0), FrameFile(1)} \subseteq frameDir
  /\ cbpc = "none"

\* recordTimelapseHandler is running on the capture thread.
PipelineRunning == cpc \notin ({"none", "done"} \cup ReturnPcs)

\* C24: the deletion loop of /clear-frames never runs while
\* recordTimelapseHandler runs, however a /clear-frames handler and a
\* /start-cam handler interleave.
C24_ClearNotDuringCapture ==
  [][\A w \in Workers :
       (/\ hpc[w] = "cf176"
        /\ hpc'[w] = "ret"
        /\ hres'[w] # "Error: invalid param value for 'all'.") =>
          ~PipelineRunning]_vars

\* The flags of the capture session: its running latch and the stop flags.
captureState == <<isCamRunning, shouldStop, shouldRecordStop>>

\* C25: when recordTimelapseHandler has returned, with 0 or with an error
\* code, the capture thread stores isCamRunning false; when
\* createTimelapseHandler has returned, the assembler thread stores
\* isCreatingTimelapse false; and no step of the assembler thread, failed
\* or not, changes isCamRunning or a stop flag.
C25_LatchClearedOnReturn ==
  [][/\ cpc \in ReturnPcs => cpc' \in {cpc, "done"}
     /\ (cpc' = "done" /\ cpc # "done") => (cpc \in ReturnPcs /\ ~isCamRunning')
     /\ apc = "a156" => apc' \in {apc, "done"}
     /\ (apc' = "done" /\ apc # "done") => (apc = "a156" /\ ~isCreatingTimelapse')
     /\ (apc \notin {"none", "done"} /\ (apc' # apc \/ createErr' # createErr)) =>
          UNCHANGED captureState]_vars

\* C25 witness: a capture session has returned and an assembly whose fork
\* failed has returned, and both latches are false.
C25_Witness ==
  /\ cpc = "done"
  /\ apc = "done"
  /\ child = "none"
  /\ ~isCamRunning
  /\ ~isCreatingTimelapse
  /\ proc = "running"

\* C26: no std::thread is destroyed while joinable: not the one held by
\* createTimelapseThread when line 154 assigns a new thread to it, not the
\* one held by camThread when line 84 does, and neither of them when main
\* returns.
C26_NoJoinableThreadDestroyed ==
  [][/\ \A w \in Workers :
          (hpc[w] = "ct154" /\ (hpc'[w] # "ct154" \/ proc' # proc)) =>
             createTimelapseThread # "joinable"
     /\ \A w \in Workers :
          (hpc[w] = "sc84" /\ (hpc'[w] # "sc84" \/ proc' # proc)) =>
             camThread # "joinable"
     /\ (mainPc = "return" /\ proc' # proc) =>
          (createTimelapseThread # "joinable" /\ camThread # "joinable")]_vars

\* The callback is between the mmap of line 109 and the munmap of line 135
\* or 176.
BufferMapped == cbpc \in {"cb132", "cb172"}

\* C27: no step of the teardown of lines 297-303 (disconnect and release of
\* the requests, then stop and free) is taken while a callback has the
\* frame buffer mapped.
C27_NoTeardownWhileMapped ==
  [][(cpc \in {"c295", "c300"} /\ cpc' # cpc) => ~BufferMapped]_vars

====
